---- MODULE Spec2Model ----
(***************************************************************************)
(* ChargeStore (src/unnamed/part_000): the charge lifecycle state machine, *)
(* its poller and the cancellation flow, as a state machine.               *)
(*                                                                         *)
(* The store is single threaded: every handler runs to its next await, so  *)
(* one action is one handler up to its await, or one continuation after an *)
(* await resolved or rejected.  Handlers are operators over a record s     *)
(* that holds the store's fields together with the timers and requests the *)
(* handler creates; an action applies one handler to the current state.    *)
(***************************************************************************)
EXTENDS Integers, Sequences, FiniteSets, TLC

\* ------------------------------------------------------------- bounds
MaxCycles == 2          \* poll cycles (fetches in flight + pending timers)
MaxCancels == 1         \* outstanding cancellation requests
MaxStreak == 1          \* cap of pollErrorStreak in the lifecycle model
MaxDelayStreak == 12    \* streaks fed to pollDelay in SpecDelay
MaxConfirmations == 2   \* confirmations of a detected payment
MaxPollFailures == 6    \* cap of pollErrorStreak in SpecOutage
MaxWeb3Calls == 2       \* requestWeb3 calls that get as far as asking
MaxTxConfirmations == 1 \* confirmations a confirmation event reports

\* ------------------------------------------------------------- constants
ConfirmationsRequired == 2

\* ------------------------------------------------------------- values
Null == "null"

Networks == {"bitcoin", "ethereum"}

NetworkSets == {{"bitcoin"}, {"bitcoin", "ethereum"}}

PricingTypes == {"fixed_price", "no_price"}

\* "NONE" stands for an empty timeline (chargeStatus undefined), "OTHER" for a
\* status the switch of processChargeUpdate does not know.
Statuses ==
  {"NONE", "NEW", "PENDING", "COMPLETED", "RESOLVED", "UNRESOLVED", "EXPIRED",
   "CANCELED", "OTHER"}

ChargeStep ==
  {"networkPicker", "oauth", "awaitingPayment", "pendingPayment",
   "waitingForConfirmations", "successfulPayment", "failedPayment",
   "canceledPayment", "processingCancellation", "maintenance"}

\* the step field before the first setCharge
NoStep == "undefined"

\* charge.payments: no payment, one payment, or an unconfirmed payment
\* followed by a confirmed one
PaymentLists ==
  {<<>>} \cup
  { <<[confirmations |-> k, confirmationsRequired |-> ConfirmationsRequired]>> :
      k \in 0..MaxConfirmations } \cup
  { <<[confirmations |-> 0, confirmationsRequired |-> ConfirmationsRequired],
      [confirmations |-> ConfirmationsRequired,
       confirmationsRequired |-> ConfirmationsRequired]>> }

CancelUrls == {"", "https://cancel"}

\* CURRENCIES_BY_NETWORK of utils/currencies, on the networks of the model
CURRENCIES_BY_NETWORK ==
  [bitcoin |-> "BTC", ethereum |-> "ETH", usdc |-> "USDC", dai |-> "DAI"]

\* contractInfo of utils/currencies: the currency is a token with a contract
contractInfo(currency) == currency \in {"USDC", "DAI"}

\* Amounts are counted in units of 0.00001 of the currency.
COINBASE_CRYPTO_LOWER_SEND_LIMIT ==
  [BTC |-> 10, BCH |-> 1, LTC |-> 100, ETH |-> 100, USDC |-> 100, BEER |-> 100,
   TST |-> 100]

\* amounts around the minimums: below all, at the BTC minimum, above all
Amounts == {5, 10, 1000}

\* charge.pricing of an unpriced charge
NoPricing == [n \in {} |-> 0]

\* charge.pricing with the same amount on every network
FlatPricing(nets, amount) ==
  [n \in nets |-> [amount |-> amount, currency |-> CURRENCIES_BY_NETWORK[n]]]

\* The orders of the lifecycle model: what stays the same in every snapshot
\* of one charge (pricing type, networks of charge.addresses, pricing,
\* cancelUrl).
Orders ==
  { [pricingType |-> "fixed_price", networks |-> {"bitcoin", "ethereum"},
     pricing |-> FlatPricing({"bitcoin", "ethereum"}, 1000),
     cancelUrl |-> "https://cancel"],
    [pricingType |-> "fixed_price", networks |-> {"bitcoin"},
     pricing |-> FlatPricing({"bitcoin"}, 1000), cancelUrl |-> ""],
    [pricingType |-> "no_price", networks |-> {"bitcoin"},
     pricing |-> NoPricing, cancelUrl |-> "https://cancel"] }

\* the snapshots of orders os in statuses sts; payments are listed for PENDING
\* snapshots (the only status whose handling reads them)
Snapshots(os, sts) ==
  { c \in { [pricingType |-> o.pricingType, networks |-> o.networks,
             pricing |-> o.pricing, cancelUrl |-> o.cancelUrl,
             status |-> st, payments |-> p] :
               o \in os, st \in sts, p \in PaymentLists } :
      c.status # "PENDING" => c.payments = <<>> }

\* The charge snapshots the backend and the caller hand to the store.
Charges == Snapshots(Orders, Statuses)

\* the orders of the browser wallet model: two networks a wallet can pay on,
\* one it can pay on beside one it cannot, and a donation
Web3Orders ==
  { [pricingType |-> "fixed_price", networks |-> {"ethereum", "usdc"},
     pricing |-> FlatPricing({"ethereum", "usdc"}, 1000), cancelUrl |-> ""],
    [pricingType |-> "fixed_price", networks |-> {"bitcoin", "ethereum"},
     pricing |-> FlatPricing({"bitcoin", "ethereum"}, 1000), cancelUrl |-> ""],
    [pricingType |-> "no_price", networks |-> {"ethereum"},
     pricing |-> NoPricing, cancelUrl |-> ""] }

Web3Charges == Snapshots(Web3Orders, {"NEW"})

\* priced orders whose amounts lie around the minimums, and a donation
LimitOrders ==
  { [pricingType |-> "no_price", networks |-> {"ethereum"},
     pricing |-> NoPricing, cancelUrl |-> ""] } \cup
  { [pricingType |-> "fixed_price", networks |-> DOMAIN pr, pricing |-> pr,
     cancelUrl |-> ""] :
      pr \in UNION { { [n \in nets |->
                          [amount |-> a[n], currency |-> CURRENCIES_BY_NETWORK[n]]] :
                        a \in [nets -> Amounts] } :
                    nets \in (SUBSET {"bitcoin", "ethereum", "dai"}) \ {{}} } }

LimitCharges == Snapshots(LimitOrders, {"NEW"})

AllCharges == Charges \cup Web3Charges \cup LimitCharges

\* a field that was never assigned
Undefined == "undefined"

\* a boolean as the three-valued field isChargeBelowCoinbaseLowerSendLimit
\* holds it
Bool(b) == IF b THEN "true" ELSE "false"

\* a Web3Status value; the fields a variant does not have are Null or 0
Web3(which) ==
  [which |-> which, currency |-> Null, txId |-> Null, confirmations |-> 0]

\* this.charge before the first setCharge
NoCharge ==
  [pricingType |-> "undefined", networks |-> {}, pricing |-> NoPricing,
   status |-> "NONE", payments |-> <<>>, cancelUrl |-> ""]

\* ------------------------------------------------------------- state
VARIABLES
  charge,            \* this.charge
  step,              \* this.step
  pickedNetwork,     \* this.pickedNetwork
  pollErrorStreak,   \* this.pollErrorStreak
  pollTimeoutId,     \* this.pollTimeoutId: Null, "sentinel" or "timer"
  expiryIntervalId,  \* this.expiryIntervalId: Null or "interval"
  pollTimers,        \* pending setTimeout(this.poll, ...) timers
  tickTimers,        \* active setInterval tick timers
  inflight,          \* charge fetches in flight, polling not stopped since
  inflightStopped,   \* charge fetches in flight, polling stopped since
  cancelRequests,    \* cancellation requests in flight
  isChargeBelowCoinbaseLowerSendLimit,  \* the field: Undefined, "true", "false"
  web3Status,        \* this.web3Status
  web3Calls,         \* the requestWeb3 calls made, in the order they began
  atHome,            \* the parent shows its home screen, not the charge
  call               \* the latest handler run and what it did

vars ==
  <<charge, step, pickedNetwork, pollErrorStreak, pollTimeoutId,
    expiryIntervalId, pollTimers, tickTimers, inflight,
    inflightStopped, cancelRequests, isChargeBelowCoinbaseLowerSendLimit,
    web3Status, web3Calls, atHome, call>>

\* ------------------------------------------------------------- helpers
\* The record the handlers work on: the store's fields, the timers and
\* fetches of the event loop, and what the running handler has done so far.
Store ==
  [charge |-> charge, step |-> step, pickedNetwork |-> pickedNetwork,
   pollErrorStreak |-> pollErrorStreak, pollTimeoutId |-> pollTimeoutId,
   expiryIntervalId |-> expiryIntervalId,
   pollTimers |-> pollTimers, tickTimers |-> tickTimers,
   inflight |-> inflight, inflightStopped |-> inflightStopped,
   isChargeBelowCoinbaseLowerSendLimit |-> isChargeBelowCoinbaseLowerSendLimit,
   web3Status |-> web3Status, web3Calls |-> web3Calls,
   atHome |-> atHome, effects |-> <<>>, thrown |-> FALSE, returned |-> Null,
   equal |-> FALSE, hidden |-> FALSE, delay |-> 0]

\* a tracking call, a widget notification, a parent call or a request
Emit(s, e) == [s EXCEPT !.effects = Append(@, e)]

\* this.parent.returnHome(): the parent leaves the charge screen
returnHome(s) == [Emit(s, "parent:returnHome") EXCEPT !.atHome = TRUE]

\* IS_LOCAL_STORAGE_AVAILABLE of utils/localStores: true outside private mode
IS_LOCAL_STORAGE_AVAILABLE == TRUE

POLL_ERROR_THRESHOLD == 3

shouldShowPayWithCoinbase(c) ==
  c.pricingType # "no_price" /\ IS_LOCAL_STORAGE_AVAILABLE

\* get networks(): the keys of charge.addresses
networks(s) == s.charge.networks

\* the first of the sorted networks, networks[0]
FirstNetwork(s) ==
  CHOOSE n \in networks(s) : \A m \in networks(s) : n = m \/ n = "bitcoin"

\* a skip rule that looks at the number of networks only
SkipOnSingleNetwork(s) == Cardinality(networks(s)) = 1

shouldSkipNetworkPicker(s) ==
  ~shouldShowPayWithCoinbase(s.charge) /\ Cardinality(networks(s)) = 1

isUnpriced(s) == s.charge.pricingType # "fixed_price"

chargeStatus(s) == s.charge.status

\* a back-off whose tiers start one failure early
pollDelayEarlyTiers(s, hidden) ==
  IF s.step = "networkPicker" \/ s.step = "maintenance" \/ hidden THEN 15000
  ELSE IF s.pollErrorStreak >= 10 THEN 10000
  ELSE IF s.pollErrorStreak >= 5 THEN 5000
  ELSE 2000

pollDelay(s, hidden) ==
  IF s.step = "networkPicker" \/ s.step = "maintenance" \/ hidden THEN 15000
  ELSE IF s.pollErrorStreak > 10 THEN 10000
  ELSE IF s.pollErrorStreak > 5 THEN 5000
  ELSE 2000

\* a status that reports the error one failure early
pollStatusAtThreshold(s) ==
  IF s.pollErrorStreak >= POLL_ERROR_THRESHOLD THEN "error"
  ELSE IF s.pollTimeoutId # Null THEN "polling" ELSE "stopped"

pollStatus(s) ==
  IF s.pollErrorStreak > POLL_ERROR_THRESHOLD THEN "error"
  ELSE IF s.pollTimeoutId # Null THEN "polling" ELSE "stopped"

\* ------------------------------------------------------------- handlers
\* a stop that leaves the error streak as it is
stopPollingKeepsStreak(s) ==
  LET a == IF s.pollTimeoutId # Null
           THEN [s EXCEPT !.pollTimers = IF s.pollTimeoutId = "timer" THEN @ - 1 ELSE @,
                          !.pollTimeoutId = Null]
           ELSE s
      b == IF a.expiryIntervalId # Null
           THEN [a EXCEPT !.tickTimers = @ - 1, !.expiryIntervalId = Null]
           ELSE a
  IN [b EXCEPT !.inflightStopped = @ + b.inflight,
               !.inflight = 0]

stopPolling(s) ==
  LET a == IF s.pollTimeoutId # Null
           THEN [s EXCEPT !.pollTimers = IF s.pollTimeoutId = "timer" THEN @ - 1 ELSE @,
                          !.pollTimeoutId = Null]
           ELSE s
      b == IF a.expiryIntervalId # Null
           THEN [a EXCEPT !.tickTimers = @ - 1, !.expiryIntervalId = Null]
           ELSE a
  IN [b EXCEPT !.pollErrorStreak = 0,
               !.inflightStopped = @ + b.inflight,
               !.inflight = 0]

\* poll up to its await: the guards, the sentinel and the fetch
poll(s, isInitial) ==
  IF s.charge = NoCharge THEN s
  ELSE IF s.pollTimeoutId # Null /\ isInitial THEN Emit(s, "warn:already-polling")
  ELSE Emit([s EXCEPT !.pollTimeoutId = "sentinel", !.inflight = @ + 1], "fetch")

\* a start that does not stop first
startPollingWithoutStop(s) ==
  LET a == poll(s, TRUE)
  IN [a EXCEPT !.expiryIntervalId = "interval", !.tickTimers = @ + 1]

startPolling(s) ==
  LET a == poll(stopPolling(s), TRUE)
  IN [a EXCEPT !.expiryIntervalId = "interval", !.tickTimers = @ + 1]

showAwaitingPayment(s, network) ==
  startPolling(
    [Emit([s EXCEPT !.pickedNetwork = network], "track:awaiting-payment-shown")
       EXCEPT !.step = "awaitingPayment"])

showNetworkPicker(s) ==
  LET a == [s EXCEPT !.pickedNetwork = Null]
  IN IF shouldSkipNetworkPicker(a)
     THEN showAwaitingPayment(a, FirstNetwork(a))
     ELSE [a EXCEPT !.step = "networkPicker"]

showOAuthScreen(s) == [s EXCEPT !.step = "oauth"]

showPendingPayment(s) ==
  Emit([Emit(s, "track:payment-detected") EXCEPT !.step = "pendingPayment"],
       "widget:payment-detected")

showWaitingForConfirmations(s) ==
  [Emit(s, "track:payment-waiting-for-confirmations")
     EXCEPT !.step = "waitingForConfirmations"]

showSuccessfulPayment(s) ==
  Emit(stopPolling([Emit(s, "track:payment-completed")
                      EXCEPT !.step = "successfulPayment"]),
       "widget:successful-charge")

showFailedPayment(s) ==
  stopPolling([Emit(Emit(s, "track:payment-failed"), "widget:failed-charge")
                 EXCEPT !.step = "failedPayment"])

showCanceledPayment(s) ==
  stopPolling([Emit(Emit(s, "track:payment-canceled"), "widget:failed-charge")
                 EXCEPT !.step = "canceledPayment"])

showMaintenanceMode(s) == [s EXCEPT !.step = "maintenance"]

\* a decision taken on the payment listed last
processPendingPaymentLastListed(s) ==
  IF s.charge.payments = <<>> THEN s
  ELSE LET payment == s.charge.payments[Len(s.charge.payments)]
       IN IF payment.confirmationsRequired <= payment.confirmations
          THEN showSuccessfulPayment(s)
          ELSE IF payment.confirmations = 0
          THEN showPendingPayment(s)
          ELSE showWaitingForConfirmations(s)

processPendingPayment(s) ==
  IF s.charge.payments = <<>> THEN s
  ELSE LET payment == s.charge.payments[1]
       IN IF payment.confirmationsRequired <= payment.confirmations
          THEN showSuccessfulPayment(s)
          ELSE IF payment.confirmations = 0
          THEN showPendingPayment(s)
          ELSE showWaitingForConfirmations(s)

\* an update that dispatches on every snapshot, equal to the held one or not
processChargeUpdateAlways(s, c, context) ==
  LET a == [s EXCEPT !.charge = c]
      status == chargeStatus(a)
  IN CASE status = "NEW" -> a
       [] status = "PENDING" ->
            IF isUnpriced(a) THEN showSuccessfulPayment(a)
            ELSE processPendingPayment(a)
       [] status = "COMPLETED" -> showSuccessfulPayment(a)
       [] status = "RESOLVED" -> showSuccessfulPayment(a)
       [] status = "UNRESOLVED" -> showFailedPayment(a)
       [] status = "EXPIRED" -> showFailedPayment(a)
       [] status = "CANCELED" -> showCanceledPayment(a)
       [] OTHER -> a

processChargeUpdate(s, c, context) ==
  IF context = "poll" /\ s.charge = c THEN [s EXCEPT !.equal = TRUE]
  ELSE LET a == [s EXCEPT !.charge = c]
           status == chargeStatus(a)
       IN CASE status = "NEW" -> a
            [] status = "PENDING" ->
                 IF isUnpriced(a) THEN showSuccessfulPayment(a)
                 ELSE processPendingPayment(a)
            [] status = "COMPLETED" -> showSuccessfulPayment(a)
            [] status = "RESOLVED" -> showSuccessfulPayment(a)
            [] status = "UNRESOLVED" -> showFailedPayment(a)
            [] status = "EXPIRED" -> showFailedPayment(a)
            [] status = "CANCELED" -> showCanceledPayment(a)
            [] OTHER -> a

loadLocalStoreCharge(s, state) ==
  IF state
  THEN IF chargeStatus(s) = "UNRESOLVED"
       THEN showFailedPayment(s)
       ELSE showSuccessfulPayment(s)
  ELSE s

\* a limit check that is satisfied by one network below its minimum
setBelowLimitOnAnyNetwork(s) ==
  IF isUnpriced(s) THEN s
  ELSE [s EXCEPT !.isChargeBelowCoinbaseLowerSendLimit =
          Bool(\E key \in networks(s) :
                 LET currency == s.charge.pricing[key].currency
                 IN /\ currency \in DOMAIN COINBASE_CRYPTO_LOWER_SEND_LIMIT
                    /\ s.charge.pricing[key].amount <
                         COINBASE_CRYPTO_LOWER_SEND_LIMIT[currency])]

setIsChargeBelowCoinbaseLowerSendLimit(s) ==
  IF isUnpriced(s) THEN s
  ELSE LET invalidCurrencies ==
             { key \in networks(s) :
                 LET currency == s.charge.pricing[key].currency
                     limitAmount ==
                       IF currency \in DOMAIN COINBASE_CRYPTO_LOWER_SEND_LIMIT
                       THEN COINBASE_CRYPTO_LOWER_SEND_LIMIT[currency]
                       ELSE 0
                 IN s.charge.pricing[key].amount < limitAmount }
       IN [s EXCEPT !.isChargeBelowCoinbaseLowerSendLimit =
             Bool(Cardinality(invalidCurrencies) = Cardinality(networks(s)))]

setCharge(s, c, picked, state) ==
  LET a == setIsChargeBelowCoinbaseLowerSendLimit(
             [s EXCEPT !.charge = c, !.atHome = FALSE,
                       !.web3Status = Web3("idle")])
      b == IF picked # Null
           THEN [a EXCEPT !.pickedNetwork = picked, !.step = "awaitingPayment"]
           ELSE showNetworkPicker(a)
  IN loadLocalStoreCharge(
       processChargeUpdate(startPolling(b), c, "startup"), state)

\* a goBack that leaves the flow from every step it has no branch for
goBackLenient(s) ==
  CASE s.step = "awaitingPayment" ->
         IF shouldSkipNetworkPicker(s)
         THEN returnHome(stopPolling(s))
         ELSE showNetworkPicker(s)
    [] OTHER -> returnHome(stopPolling(s))

goBack(s) ==
  CASE s.step = "awaitingPayment" ->
         IF shouldSkipNetworkPicker(s)
         THEN returnHome(stopPolling(s))
         ELSE showNetworkPicker(s)
    [] s.step \in {"networkPicker", "successfulPayment", "failedPayment",
                   "canceledPayment"} ->
         returnHome(stopPolling(s))
    [] OTHER -> [s EXCEPT !.thrown = TRUE]

pickNetwork(s, network) ==
  showAwaitingPayment(Emit(s, "track:currency-picked"), network)

payWithCoinbase(s) == showOAuthScreen(stopPolling(s))

\* setTimeout(this.poll, this.pollDelay)
scheduleNextPoll(s, hidden) ==
  [s EXCEPT !.pollTimeoutId = "timer", !.pollTimers = @ + 1,
            !.hidden = hidden, !.delay = pollDelay(s, hidden)]

\* poll after its await resolved with snapshot c
pollResolved(s, c, hidden) ==
  IF s.pollTimeoutId = Null THEN s
  ELSE scheduleNextPoll(
         processChargeUpdate([s EXCEPT !.pollErrorStreak = 0], c, "poll"),
         hidden)

\* a failure handler that reads the delay before it records the failure
pollRejectedDelayFirst(s, e, hidden) ==
  IF s.pollTimeoutId = Null THEN s
  ELSE [scheduleNextPoll(
          IF e = "maintenance"
          THEN showMaintenanceMode(s)
          ELSE [s EXCEPT !.pollErrorStreak = @ + 1],
          hidden)
         EXCEPT !.delay = pollDelay(s, hidden)]

\* poll after its await rejected with error e
pollRejected(s, e, hidden) ==
  IF s.pollTimeoutId = Null THEN s
  ELSE scheduleNextPoll(
         IF e = "maintenance"
         THEN showMaintenanceMode(s)
         ELSE [s EXCEPT !.pollErrorStreak = @ + 1],
         hidden)

\* cancelCharge up to its await
cancelCharge(s) ==
  IF s.charge = NoCharge THEN s
  ELSE Emit(stopPolling([Emit(s, "track:payment-canceled")
                           EXCEPT !.step = "processingCancellation"]),
            "cancel")

\* cancelCharge after its await resolved with snapshot c
cancelChargeResolved(s, c) ==
  LET a == processChargeUpdate(s, c, "cancel")
  IN [a EXCEPT !.returned = a.charge.cancelUrl]

\* a cancelCharge that lets the rejection of its request escape
cancelChargeRethrows(s) == [s EXCEPT !.thrown = TRUE]

\* cancelCharge after its await rejected
cancelChargeRejected(s) == [s EXCEPT !.returned = s.charge.cancelUrl]

\* ------------------------------------------------------------- browser wallet
\* the awaits of requestWeb3, in order: ethereum.enable(), the import of
\* web3, web3.eth.getChainId(), web3.eth.getAccounts()
Awaiting == {"enable", "import", "chainId", "accounts"}

\* what an await of requestWeb3 can settle with
Outcomes(pc) ==
  CASE pc = "enable" -> {"ok", "reject"}
    [] pc = "import" -> {"ok", "reject"}
    [] pc = "chainId" -> {"ok", "mismatch", "reject"}
    [] pc = "accounts" -> {"ok", "empty", "reject"}
    [] OTHER -> {}

\* requestWeb3 past the test of window.ethereum, up to its first await
requestWeb3WithProvider(s) ==
  IF isUnpriced(s) THEN s
  ELSE
    LET network == s.pickedNetwork
        currency == IF network \in DOMAIN CURRENCIES_BY_NETWORK
                    THEN CURRENCIES_BY_NETWORK[network]
                    ELSE Null
    IN IF network = Null \/ currency = Null THEN s
       ELSE IF network # "ethereum" /\ ~contractInfo(currency) THEN s
       ELSE IF /\ s.web3Status.which # "idle"
               /\ ~(/\ s.web3Status.which = "declined"
                     /\ s.web3Status.currency # currency)
       THEN s
       ELSE IF network \notin DOMAIN s.charge.pricing THEN s
       ELSE Emit(Emit([s EXCEPT
                         !.web3Status = Web3("asking"),
                         !.web3Calls =
                           Append(@, [pc |-> "enable", currency |-> currency,
                                      overlaps |->
                                        \E i \in DOMAIN s.web3Calls :
                                          s.web3Calls[i].pc \in Awaiting])],
                      "import:web3"),
                 "ethereum.enable")

\* a requestWeb3 that looks for the wallet only when the charge is priced
requestWeb3PricedFirst(s, ethereum) ==
  IF isUnpriced(s) THEN s
  ELSE IF ~ethereum THEN [s EXCEPT !.web3Status = Web3("unsupported")]
  ELSE requestWeb3WithProvider(s)

\* requestWeb3 up to its first await; ethereum is window.ethereum being there
requestWeb3(s, ethereum) ==
  IF ~ethereum THEN [s EXCEPT !.web3Status = Web3("unsupported")]
  ELSE requestWeb3WithProvider(s)

\* requestWeb3 call i after the await it stands at settled with outcome
requestWeb3Resumed(s, i, outcome) ==
  LET this == s.web3Calls[i]
      stop(status) == [s EXCEPT !.web3Status = status, !.web3Calls[i].pc = "done"]
      declined == [Web3("declined") EXCEPT !.currency = this.currency]
  IN CASE this.pc = "enable" ->
            IF outcome = "ok" THEN [s EXCEPT !.web3Calls[i].pc = "import"]
            ELSE stop(declined)
       [] this.pc = "import" ->
            IF outcome = "ok"
            THEN Emit([s EXCEPT !.web3Calls[i].pc = "chainId"], "web3.eth.getChainId")
            ELSE stop(Web3("failed"))
       [] this.pc = "chainId" ->
            IF outcome = "ok"
            THEN Emit([s EXCEPT !.web3Calls[i].pc = "accounts"], "web3.eth.getAccounts")
            ELSE IF outcome = "mismatch" THEN stop(Web3("wrong-chain"))
            ELSE stop(Web3("failed"))
       [] this.pc = "accounts" ->
            IF outcome = "ok"
            THEN Emit([s EXCEPT !.web3Calls[i].pc = "events"],
                      "web3.eth.sendTransaction")
            ELSE IF outcome = "empty" THEN stop(Web3("no-account"))
            ELSE stop(declined)
       [] OTHER -> s

\* the transaction hash of the transaction that call i sent
TxOf(i) == IF i = 1 THEN "0x1" ELSE "0x2"

\* the events of the transaction that call i sent
Web3Events(i) ==
  { [type |-> "transactionHash", txId |-> x, failed |-> FALSE, confirmations |-> 0] :
      x \in {"", TxOf(i)} } \cup
  { [type |-> "receipt", txId |-> TxOf(i), failed |-> f, confirmations |-> 0] :
      f \in BOOLEAN } \cup
  { [type |-> "confirmation", txId |-> TxOf(i), failed |-> FALSE, confirmations |-> n] :
      n \in 0..MaxTxConfirmations } \cup
  { [type |-> "error", txId |-> Null, failed |-> FALSE, confirmations |-> 0] }

\* event handlers whose receipt handler does not look at the status
web3EventEagerReceipt(s, i, ev) ==
  LET declined == [Web3("declined") EXCEPT !.currency = s.web3Calls[i].currency]
  IN CASE ev.type = "transactionHash" ->
            IF ev.txId = "" THEN [s EXCEPT !.web3Status = declined]
            ELSE [s EXCEPT !.web3Status = [Web3("submitted") EXCEPT !.txId = ev.txId]]
       [] ev.type = "receipt" ->
            IF ev.failed THEN [s EXCEPT !.web3Status = Web3("failed")]
            ELSE [s EXCEPT !.web3Status = [Web3("mined") EXCEPT !.txId = ev.txId]]
       [] ev.type = "confirmation" ->
            IF s.web3Status.which # "declined"
            THEN [s EXCEPT !.web3Status =
                    [Web3("mined") EXCEPT !.txId = ev.txId,
                                          !.confirmations = ev.confirmations]]
            ELSE s
       [] OTHER -> [s EXCEPT !.web3Status = declined]

\* a handler of the transaction's event emitter of call i runs on event ev
web3Event(s, i, ev) ==
  LET declined == [Web3("declined") EXCEPT !.currency = s.web3Calls[i].currency]
  IN CASE ev.type = "transactionHash" ->
            IF ev.txId = "" THEN [s EXCEPT !.web3Status = declined]
            ELSE [s EXCEPT !.web3Status = [Web3("submitted") EXCEPT !.txId = ev.txId]]
       [] ev.type = "receipt" ->
            IF ev.failed THEN [s EXCEPT !.web3Status = Web3("failed")]
            ELSE IF s.web3Status.which = "submitted"
            THEN [s EXCEPT !.web3Status =
                    [Web3("mined") EXCEPT !.txId = s.web3Status.txId]]
            ELSE s
       [] ev.type = "confirmation" ->
            IF s.web3Status.which # "declined"
            THEN [s EXCEPT !.web3Status =
                    [Web3("mined") EXCEPT !.txId = ev.txId,
                                          !.confirmations = ev.confirmations]]
            ELSE s
       [] OTHER -> [s EXCEPT !.web3Status = declined]

cancelWeb3(s) == [s EXCEPT !.web3Status = Web3("canceled")]

\* ------------------------------------------------------------- actions
\* poll cycles alive: each is a fetch in flight or a pending poll timer
Cycles(s) == s.inflight + s.inflightStopped + s.pollTimers

\* the state after handler op has run, leaving the store as s
Apply(s, op) ==
  /\ Cycles(s) <= MaxCycles
  /\ charge' = s.charge
  /\ step' = s.step
  /\ pickedNetwork' = s.pickedNetwork
  /\ pollErrorStreak' = s.pollErrorStreak
  /\ pollTimeoutId' = s.pollTimeoutId
  /\ expiryIntervalId' = s.expiryIntervalId
  /\ pollTimers' = s.pollTimers
  /\ tickTimers' = s.tickTimers
  /\ inflight' = s.inflight
  /\ inflightStopped' = s.inflightStopped
  /\ isChargeBelowCoinbaseLowerSendLimit' = s.isChargeBelowCoinbaseLowerSendLimit
  /\ web3Status' = s.web3Status
  /\ web3Calls' = s.web3Calls
  /\ atHome' = s.atHome
  /\ call' = [op |-> op, effects |-> s.effects, thrown |-> s.thrown,
              returned |-> s.returned, equal |-> s.equal, hidden |-> s.hidden,
              delay |-> s.delay]

NoCall ==
  [op |-> "none", effects |-> <<>>, thrown |-> FALSE, returned |-> Null,
   equal |-> FALSE, hidden |-> FALSE, delay |-> 0]

\* the snapshots of the order that charge c belongs to
SameOrder(c) ==
  { d \in AllCharges : /\ d.pricingType = c.pricingType
                       /\ d.networks = c.networks
                       /\ d.pricing = c.pricing
                       /\ d.cancelUrl = c.cancelUrl }

Init ==
  /\ charge = NoCharge
  /\ step = NoStep
  /\ pickedNetwork = Null
  /\ pollErrorStreak = 0
  /\ pollTimeoutId = Null
  /\ expiryIntervalId = Null
  /\ pollTimers = 0
  /\ tickTimers = 0
  /\ inflight = 0
  /\ inflightStopped = 0
  /\ cancelRequests = 0
  /\ isChargeBelowCoinbaseLowerSendLimit = Undefined
  /\ web3Status = Web3("idle")
  /\ web3Calls = <<>>
  /\ atHome = TRUE
  /\ call = NoCall

SetCharge ==
  /\ atHome
  /\ \E c \in (IF charge = NoCharge THEN Charges ELSE SameOrder(charge)) :
     \E picked \in {Null} \cup c.networks :
     \E state \in BOOLEAN :
       /\ Apply(setCharge(Store, c, picked, state), "setCharge")
       /\ UNCHANGED cancelRequests

\* setCharge with these arguments; state is what loadStore(code) holds of
\* isOAuthPayment
SetChargeWith(c, picked, state) ==
  /\ atHome
  /\ Apply(setCharge(Store, c, picked, state), "setCharge")
  /\ UNCHANGED cancelRequests

GoBack ==
  /\ ~atHome
  /\ Apply(goBack(Store), "goBack")
  /\ UNCHANGED cancelRequests

PickNetwork ==
  \E network \in charge.networks :
    /\ ~atHome
    /\ Apply(pickNetwork(Store, network), "pickNetwork")
    /\ UNCHANGED cancelRequests

PayWithCoinbase ==
  /\ ~atHome
  /\ Apply(payWithCoinbase(Store), "payWithCoinbase")
  /\ UNCHANGED cancelRequests

StartPolling ==
  /\ ~atHome
  /\ Apply(startPolling(Store), "startPolling")
  /\ UNCHANGED cancelRequests

StopPolling ==
  /\ ~atHome
  /\ Apply(stopPolling(Store), "stopPolling")
  /\ UNCHANGED cancelRequests

\* a pending poll timer fires and runs poll()
TimerFire ==
  /\ pollTimers > 0
  /\ Apply(poll([Store EXCEPT !.pollTimers = @ - 1], FALSE), "poll")
  /\ UNCHANGED cancelRequests

\* the fetch that settles: one issued since polling was last stopped, or one
\* that polling was stopped under
Settle(s, stopped) ==
  IF stopped THEN [s EXCEPT !.inflightStopped = @ - 1]
  ELSE [s EXCEPT !.inflight = @ - 1]

CanSettle(stopped) == IF stopped THEN inflightStopped > 0 ELSE inflight > 0

\* document.hidden as the poll handlers read it: the lifecycle model keeps the
\* page visible (SpecDelay feeds pollDelay both values)
DocumentHidden == {FALSE}

\* What a settling fetch can bring: nothing is read of it when polling is
\* stopped (pollTimeoutId is null), so one value stands for all.
Responses(all) == IF pollTimeoutId = Null THEN {CHOOSE r \in all : TRUE} ELSE all

\* the fetch settles with snapshot c
PollResolvedWith(stopped, c, hidden) ==
  /\ CanSettle(stopped)
  /\ Apply(pollResolved(Settle(Store, stopped), c, hidden), "pollResolved")
  /\ UNCHANGED cancelRequests

PollResolved ==
  \E stopped \in BOOLEAN :
    /\ CanSettle(stopped)
    /\ \E c \in Responses(SameOrder(charge)) :
       \E hidden \in Responses(DocumentHidden) :
         PollResolvedWith(stopped, c, hidden)

\* the fetch fails with error e
PollRejectedWith(stopped, e, hidden) ==
  /\ CanSettle(stopped)
  /\ pollErrorStreak < MaxStreak
  /\ Apply(pollRejected(Settle(Store, stopped), e, hidden), "pollRejected")
  /\ UNCHANGED cancelRequests

PollRejected ==
  \E stopped \in BOOLEAN :
    /\ CanSettle(stopped)
    /\ \E e \in Responses({"maintenance", "error"}) :
       \E hidden \in Responses(DocumentHidden) :
         PollRejectedWith(stopped, e, hidden)

CancelCharge ==
  /\ ~atHome
  /\ cancelRequests < MaxCancels
  /\ Apply(cancelCharge(Store), "cancelCharge")
  /\ cancelRequests' = cancelRequests + 1

CancelResolved ==
  \E c \in SameOrder(charge) :
    /\ cancelRequests > 0
    /\ cancelRequests' = cancelRequests - 1
    /\ Apply(cancelChargeResolved(Store, c), "cancelChargeResolved")

CancelRejected ==
  /\ cancelRequests > 0
  /\ cancelRequests' = cancelRequests - 1
  /\ Apply(cancelChargeRejected(Store), "cancelChargeRejected")

Next ==
  \/ SetCharge
  \/ GoBack
  \/ PickNetwork
  \/ PayWithCoinbase
  \/ StartPolling
  \/ StopPolling
  \/ TimerFire
  \/ PollResolved
  \/ PollRejected
  \/ CancelCharge
  \/ CancelResolved
  \/ CancelRejected

Spec == Init /\ [][Next]_vars

\* ------------------------------------------------------------- the poller alone
\* The poller left to itself after the charge was set: no user action.  Pending
\* timers fire and every fetch settles (the event loop runs them).
NextPoll ==
  \/ SetCharge
  \/ TimerFire
  \/ PollResolved
  \/ PollRejected

SpecPoll ==
  /\ Init
  /\ [][NextPoll]_vars
  /\ WF_vars(TimerFire)
  /\ WF_vars(PollResolved \/ PollRejected)

\* ------------------------------------------------------------- cancellation
\* The poller and the cancellation flow with no other user action after the
\* charge was set.
NextCancel ==
  \/ SetCharge
  \/ TimerFire
  \/ PollResolved
  \/ PollRejected
  \/ CancelCharge
  \/ CancelResolved
  \/ CancelRejected

SpecCancel == Init /\ [][NextCancel]_vars

\* ------------------------------------------------------------- restarts
\* The poller stopped and started at any moment of its cycle: with a fetch in
\* flight, with a timer pending, after failures.
NextRestart ==
  \/ SetCharge
  \/ StartPolling
  \/ StopPolling
  \/ TimerFire
  \/ PollResolved
  \/ PollRejected

SpecRestart == Init /\ [][NextRestart]_vars

\* ------------------------------------------------------------- outage
\* The poller against a backend that keeps failing: the error streak grows
\* past POLL_ERROR_THRESHOLD and past the first tier of pollDelay, with the
\* page visible or hidden.
PollFailsWith(stopped, e, hidden) ==
  /\ CanSettle(stopped)
  /\ pollErrorStreak < MaxPollFailures
  /\ Apply(pollRejected(Settle(Store, stopped), e, hidden), "pollRejected")
  /\ UNCHANGED cancelRequests

PollFails ==
  \E stopped \in BOOLEAN :
    /\ CanSettle(stopped)
    /\ \E e \in Responses({"maintenance", "error"}) :
       \E hidden \in Responses(BOOLEAN) :
         PollFailsWith(stopped, e, hidden)

PollSucceeds ==
  \E stopped \in BOOLEAN :
    /\ CanSettle(stopped)
    /\ \E c \in Responses(SameOrder(charge)) :
       \E hidden \in Responses(BOOLEAN) :
         PollResolvedWith(stopped, c, hidden)

NextOutage ==
  \/ SetCharge
  \/ TimerFire
  \/ PollSucceeds
  \/ PollFails

SpecOutage == Init /\ [][NextOutage]_vars

\* ------------------------------------------------------------- stops during an outage
\* The poller stopped and started again while the backend keeps failing: the
\* error streak is past POLL_ERROR_THRESHOLD when polling stops, and fetches
\* fail after it has stopped.
NextStreak ==
  \/ SetCharge
  \/ StartPolling
  \/ StopPolling
  \/ TimerFire
  \/ PollSucceeds
  \/ PollFails

SpecStreak == Init /\ [][NextStreak]_vars

\* ------------------------------------------------------------- send limits
\* The parent shows one charge after another: charges priced around the
\* minimums of COINBASE_CRYPTO_LOWER_SEND_LIMIT and a donation.  The customer
\* goes back to the home screen in between.
SetLimitCharge ==
  /\ atHome
  /\ \E c \in LimitCharges :
     \E picked \in {Null} \cup c.networks :
     \E state \in BOOLEAN :
       /\ Apply(setCharge(Store, c, picked, state), "setCharge")
       /\ UNCHANGED cancelRequests

NextLimit ==
  \/ SetLimitCharge
  \/ GoBack
  \/ PollResolved

SpecLimit == Init /\ [][NextLimit]_vars

\* ------------------------------------------------------------- browser wallet
\* Paying from a browser wallet: the parent shows a charge, the customer picks
\* a network, asks the wallet, goes back and returns; the wallet and the
\* transaction answer in any order.
SetWeb3Charge ==
  /\ atHome
  /\ \E c \in Web3Charges :
     \E picked \in {Null} \cup c.networks :
       /\ Apply(setCharge(Store, c, picked, FALSE), "setCharge")
       /\ UNCHANGED cancelRequests

RequestWeb3With(ethereum) ==
  /\ ~atHome
  /\ Len(requestWeb3(Store, ethereum).web3Calls) <= MaxWeb3Calls
  /\ Apply(requestWeb3(Store, ethereum), "requestWeb3")
  /\ UNCHANGED cancelRequests

RequestWeb3 ==
  \E ethereum \in BOOLEAN :
    /\ ~atHome
    /\ RequestWeb3With(ethereum)

Web3Resumes ==
  \E i \in DOMAIN web3Calls :
    \E outcome \in Outcomes(web3Calls[i].pc) :
      /\ Apply(requestWeb3Resumed(Store, i, outcome), "requestWeb3Resumed")
      /\ UNCHANGED cancelRequests

Web3EventWith(i, ev) ==
  /\ i \in DOMAIN web3Calls
  /\ web3Calls[i].pc = "events"
  /\ Apply(web3Event(Store, i, ev), "web3Event")
  /\ UNCHANGED cancelRequests

Web3Event ==
  \E i \in DOMAIN web3Calls :
    /\ web3Calls[i].pc = "events"
    /\ \E ev \in Web3Events(i) : Web3EventWith(i, ev)

CancelWeb3 ==
  /\ ~atHome
  /\ Apply(cancelWeb3(Store), "cancelWeb3")
  /\ UNCHANGED cancelRequests

NextWeb3 ==
  \/ SetWeb3Charge
  \/ PickNetwork
  \/ GoBack
  \/ RequestWeb3
  \/ Web3Resumes
  \/ Web3Event
  \/ CancelWeb3

SpecWeb3 == Init /\ [][NextWeb3]_vars

\* ------------------------------------------------------------- transaction events
\* The event handlers alone, on every status they can find: one to
\* MaxWeb3Calls transactions were sent for a priced charge on the payment
\* screen, and the status is whatever the calls, cancelWeb3, setCharge and
\* earlier events left.
Web3Statuses ==
  { Web3(w) : w \in {"idle", "asking", "unsupported", "wrong-chain",
                     "no-account", "failed", "canceled"} } \cup
  { [Web3("declined") EXCEPT !.currency = c] : c \in {"ETH", "USDC"} } \cup
  { [Web3("submitted") EXCEPT !.txId = x] : x \in {"0x1", "0x2"} } \cup
  { [Web3("mined") EXCEPT !.txId = x, !.confirmations = n] :
      x \in {"0x1", "0x2"}, n \in 0..MaxTxConfirmations }

\* calls that have sent their transaction
SentCalls ==
  UNION { { calls \in [1..n -> [pc : {"events"}, currency : {"ETH", "USDC"},
                                overlaps : BOOLEAN]] :
              ~calls[1].overlaps } :
          n \in 1..MaxWeb3Calls }

InitTx ==
  /\ charge = CHOOSE c \in Web3Charges : c.networks = {"ethereum", "usdc"}
  /\ step = "awaitingPayment"
  /\ pickedNetwork \in {"ethereum", "usdc"}
  /\ pollErrorStreak = 0
  /\ pollTimeoutId = "sentinel"
  /\ expiryIntervalId = "interval"
  /\ pollTimers = 0
  /\ tickTimers = 1
  /\ inflight = 1
  /\ inflightStopped = 0
  /\ cancelRequests = 0
  /\ isChargeBelowCoinbaseLowerSendLimit = "false"
  /\ web3Status \in Web3Statuses
  /\ web3Calls \in SentCalls
  /\ atHome = FALSE
  /\ call = NoCall

NextTx ==
  \/ Web3Event
  \/ CancelWeb3

SpecTx == InitTx /\ [][NextTx]_vars

\* ------------------------------------------------------------- going back
\* The screens a customer can be on while the backend answers, and goBack
\* from each of them.
NextBack ==
  \/ SetCharge
  \/ PickNetwork
  \/ GoBack
  \/ TimerFire
  \/ PollResolved
  \/ CancelCharge

SpecBack == Init /\ [][NextBack]_vars

\* ------------------------------------------------------------- pollDelay alone
InitDelay ==
  /\ charge = NoCharge
  /\ step \in ChargeStep
  /\ pickedNetwork = Null
  /\ pollErrorStreak \in 0..MaxDelayStreak
  /\ pollTimeoutId = Null
  /\ expiryIntervalId = Null
  /\ pollTimers = 0
  /\ tickTimers = 0
  /\ inflight = 0
  /\ inflightStopped = 0
  /\ cancelRequests = 0
  /\ isChargeBelowCoinbaseLowerSendLimit = Undefined
  /\ web3Status = Web3("idle")
  /\ web3Calls = <<>>
  /\ atHome = FALSE
  /\ call = NoCall

\* the getter pollDelay is read
ReadPollDelay ==
  \E hidden \in BOOLEAN :
    /\ call' = [NoCall EXCEPT !.op = "pollDelay", !.hidden = hidden,
                              !.delay = pollDelay(Store, hidden)]
    /\ UNCHANGED <<charge, step, pickedNetwork, pollErrorStreak, pollTimeoutId,
                   expiryIntervalId, pollTimers, tickTimers, inflight,
                   inflightStopped, cancelRequests,
                   isChargeBelowCoinbaseLowerSendLimit, web3Status, web3Calls,
                   atHome>>

NextDelay == ReadPollDelay

SpecDelay == InitDelay /\ [][NextDelay]_vars

\* ------------------------------------------------------------- claims
Paid == {"COMPLETED", "RESOLVED"}

InFlightSteps == {"pendingPayment", "waitingForConfirmations", "processingCancellation"}

\* the step applied a snapshot to the state machine: setCharge, a poll response
\* that was not discarded, or a cancel response
FeedsSnapshot ==
  \/ call'.op \in {"setCharge", "cancelChargeResolved"}
  \/ call'.op = "pollResolved" /\ pollTimeoutId # Null

\* C1: whenever the snapshot just applied (by setCharge, a poll response or a
\* cancel response) has status COMPLETED or RESOLVED, the step is
\* successfulPayment and polling has stopped: no poll timer handle, no pending
\* poll timer.
C1_PaidStopsPolling ==
  [][(FeedsSnapshot /\ charge'.status \in Paid)
       => /\ step' = "successfulPayment"
          /\ pollTimeoutId' = Null
          /\ pollTimers' = 0]_vars

\* C2: the result of a fetch that polling was stopped under is discarded: when
\* it settles, the held charge, the step, the error streak and the poll timers
\* stay as they were.
C2_StoppedFetchDiscarded ==
  [][(inflightStopped' < inflightStopped)
       => /\ charge' = charge
          /\ step' = step
          /\ pollErrorStreak' = pollErrorStreak
          /\ pollTimeoutId' = pollTimeoutId
          /\ pollTimers' = pollTimers]_vars

\* C3: at most one poll cycle at any time: never two charge fetches in flight,
\* and never a fetch in flight together with a pending poll timer.
C3_OnePollCycle ==
  /\ inflight + inflightStopped <= 1
  /\ ~(inflight + inflightStopped >= 1 /\ pollTimers >= 1)

\* C4: a poll response whose snapshot equals the held charge changes neither
\* the charge nor the step, does not stop polling (the tick timer stays, a next
\* poll is scheduled) and emits no tracking or widget notification.
C4_IdenticalSnapshotIsNoOp ==
  [][\A stopped \in BOOLEAN : \A hidden \in DocumentHidden :
       (pollTimeoutId # Null /\ PollResolvedWith(stopped, charge, hidden))
         => /\ charge' = charge
            /\ step' = step
            /\ expiryIntervalId' = expiryIntervalId
            /\ tickTimers' = tickTimers
            /\ pollTimeoutId' # Null
            /\ call'.effects = <<>>]_vars

\* C4 witness: a PENDING snapshot was fed a second time and took the
\* deep-equality exit, the step staying pendingPayment.
C4_Witness ==
  /\ call.op = "pollResolved"
  /\ call.equal
  /\ charge.status = "PENDING"
  /\ step = "pendingPayment"

\* C5: maintenance self-heals: in a fair run of the poller, it cannot be that
\* from some point on no poll fails and the step still stays maintenance.
C5_MaintenanceSelfHeals ==
  []<>(step # "maintenance" \/ call.op = "pollRejected")

\* C6: a failed cancellation request is swallowed: nothing is thrown to the
\* caller, the held charge stays what it was (cancelCharge itself does not
\* replace it either), and the charge's cancelUrl is returned.
C6_CancelFailureSwallowed ==
  [][/\ CancelCharge => charge' = charge
     /\ CancelRejected => /\ ~call'.thrown
                          /\ charge' = charge
                          /\ call'.returned = charge.cancelUrl]_vars

\* C6 witness: a cancellation failed and the cancelUrl of the held charge came
\* back.
C6_Witness ==
  /\ call.op = "cancelChargeRejected"
  /\ call.returned = "https://cancel"
  /\ charge.cancelUrl = "https://cancel"

\* C7: cancelCharge sets processingCancellation and stops polling at once, and
\* while the cancellation request is outstanding no poll response changes the
\* step or the held charge.
C7_CancelHoldsTheStep ==
  [][/\ CancelCharge => (step' = "processingCancellation" /\ pollTimeoutId' = Null)
     /\ (cancelRequests > 0 /\ call'.op \in {"pollResolved", "pollRejected"})
          => (step' = step /\ charge' = charge)]_vars

\* C8: goBack from pendingPayment, waitingForConfirmations or
\* processingCancellation throws, and changes nothing of the step, the picked
\* network, the held charge and the polling state.
C8_GoBackInFlightThrows ==
  [][(GoBack /\ step \in InFlightSteps)
       => /\ call'.thrown
          /\ UNCHANGED <<step, pickedNetwork, charge, pollErrorStreak,
                         pollTimeoutId, expiryIntervalId, pollTimers, tickTimers,
                         inflight, inflightStopped,
                         isChargeBelowCoinbaseLowerSendLimit, web3Status,
                         web3Calls, atHome>>]_vars

\* C8 witness: goBack was called in waitingForConfirmations and threw.
C8_Witness ==
  /\ call.op = "goBack"
  /\ call.thrown
  /\ step = "waitingForConfirmations"

\* goBack left the flow: polling stopped, returnHome called
LeftTheFlow ==
  /\ pollTimeoutId' = Null
  /\ expiryIntervalId' = Null
  /\ atHome'
  /\ call'.effects = <<"parent:returnHome">>

BackToPicker == step' = "networkPicker" /\ pickedNetwork' = Null

\* C9 as stated: goBack from awaitingPayment goes to the network picker when
\* the charge has two or more networks, and leaves the flow when it has
\* exactly one.
C9_GoBackByNetworkCount ==
  [][(GoBack /\ step = "awaitingPayment")
       => IF Cardinality(charge.networks) >= 2 THEN BackToPicker
          ELSE LeftTheFlow]_vars

\* C9 amended: goBack from awaitingPayment leaves the flow only when the charge
\* has exactly one network and Pay with Coinbase is not offered for it (the
\* charge is unpriced, or local storage is unavailable); otherwise, with one
\* network or more, it goes to the network picker and clears pickedNetwork.
C9_GoBackBySkipRule ==
  [][(GoBack /\ step = "awaitingPayment")
       => IF /\ Cardinality(charge.networks) = 1
             /\ (charge.pricingType = "no_price" \/ ~IS_LOCAL_STORAGE_AVAILABLE)
          THEN LeftTheFlow /\ step' = step
          ELSE BackToPicker /\ ~atHome']_vars

\* C9 witness: goBack took a priced charge with a single network from
\* awaitingPayment back to the network picker.
C9_Witness ==
  /\ call.op = "goBack"
  /\ step = "networkPicker"
  /\ Cardinality(charge.networks) = 1
  /\ charge.pricingType = "fixed_price"
  /\ ~atHome

\* C10: pollDelay is 15000 on networkPicker, on maintenance or with the page
\* hidden, whatever the streak; otherwise 10000 for a streak above 10, 5000 for
\* a streak above 5, and 2000 for a streak of 5 or less.
C10_PollDelayPolicy ==
  call.op = "pollDelay" =>
    /\ (step \in {"networkPicker", "maintenance"} \/ call.hidden)
         => call.delay = 15000
    /\ (step \notin {"networkPicker", "maintenance"} /\ ~call.hidden)
         => /\ pollErrorStreak > 10 => call.delay = 10000
            /\ (pollErrorStreak > 5 /\ pollErrorStreak <= 10) => call.delay = 5000
            /\ pollErrorStreak <= 5 => call.delay = 2000
            /\ pollErrorStreak = 0 => call.delay = 2000
            /\ pollErrorStreak = 6 => call.delay = 5000
            /\ pollErrorStreak = 11 => call.delay = 10000

\* C10 witness: pollDelay was read with a streak of 11 on a visible
\* awaitingPayment page and gave 10000.
C10_Witness ==
  /\ call.op = "pollDelay"
  /\ step = "awaitingPayment"
  /\ ~call.hidden
  /\ pollErrorStreak = 11
  /\ call.delay = 10000

\* C11: in every reachable state pollStatus is error exactly when the error
\* streak is greater than 3, whether or not a poll timer handle is present;
\* otherwise it is polling when a handle is present and stopped when none is.
C11_PollStatusByStreak ==
  pollStatus(Store) =
    IF pollErrorStreak > 3 THEN "error"
    ELSE IF pollTimeoutId # Null THEN "polling"
    ELSE "stopped"

\* a streak of 4 reports error while the next poll is scheduled
C11_Witness ==
  /\ pollErrorStreak = 4
  /\ pollTimeoutId = "timer"
  /\ pollTimers > 0
  /\ pollStatus(Store) = "error"

\* the minimum of a currency: its entry in the table, 0 when it has none
MinimumOf(currency) ==
  IF currency \in DOMAIN COINBASE_CRYPTO_LOWER_SEND_LIMIT
  THEN COINBASE_CRYPTO_LOWER_SEND_LIMIT[currency]
  ELSE 0

\* no network of charge c is priced at or above its currency's minimum
EveryNetworkBelowMinimum(c) ==
  \A n \in c.networks : c.pricing[n].amount < MinimumOf(c.pricing[n].currency)

\* C12: for a priced charge, setCharge sets isChargeBelowCoinbaseLowerSendLimit
\* to true if and only if every network of the charge's addresses is priced
\* strictly below its currency's minimum (0 for a currency that is not in the
\* table), and to false as soon as one network is at or above its minimum.
C12_BelowLimitOnEveryNetwork ==
  [][(call'.op = "setCharge" /\ charge'.pricingType = "fixed_price")
       => isChargeBelowCoinbaseLowerSendLimit' =
            Bool(EveryNetworkBelowMinimum(charge'))]_vars

\* 0.00005 BTC with 0.01 ETH beside it: one viable network, the flag is false
C12_Witness ==
  /\ call.op = "setCharge"
  /\ charge.pricingType = "fixed_price"
  /\ charge.networks = {"bitcoin", "ethereum"}
  /\ charge.pricing["bitcoin"].amount = 5
  /\ charge.pricing["ethereum"].amount = 1000
  /\ isChargeBelowCoinbaseLowerSendLimit = "false"

\* C13: after setCharge with an unpriced charge
\* isChargeBelowCoinbaseLowerSendLimit is not true, whatever charges the store
\* held before.
C13_UnpricedNeverBelowLimit ==
  [][(call'.op = "setCharge" /\ charge'.pricingType # "fixed_price")
       => isChargeBelowCoinbaseLowerSendLimit' # "true"]_vars

\* C14: requestWeb3 with no wallet provider present sets web3Status to
\* unsupported whatever the status was, asks for no connection, loads no
\* library, queries no chain or account, submits no transaction and does not
\* throw.
C14_NoProviderIsUnsupported ==
  [][RequestWeb3With(FALSE)
       => /\ web3Status' = Web3("unsupported")
          /\ web3Calls' = web3Calls
          /\ call'.effects = <<>>
          /\ ~call'.thrown]_vars

\* unsupported was set over an attempt that is waiting for the wallet
C14_Witness ==
  /\ call.op = "requestWeb3"
  /\ web3Status.which = "unsupported"
  /\ \E i \in DOMAIN web3Calls : web3Calls[i].pc = "enable"

\* the currency a requestWeb3 call would ask the wallet for now
RequestedCurrency ==
  IF pickedNetwork \in DOMAIN CURRENCIES_BY_NETWORK
  THEN CURRENCIES_BY_NETWORK[pickedNetwork]
  ELSE Null

\* web3Status lets a new attempt begin
MayAskAgain ==
  \/ web3Status.which = "idle"
  \/ web3Status.which = "declined" /\ web3Status.currency # RequestedCurrency

\* C15: with a provider present requestWeb3 starts a new attempt (status
\* asking, connection requested) only when web3Status is idle or is declined
\* for another currency than the one now requested, and otherwise returns
\* without changing web3Status and without calling the provider; and two
\* overlapping requestWeb3 calls never both submit a transaction.
C15_SingleShot ==
  /\ [][RequestWeb3With(TRUE)
          => /\ Len(web3Calls') > Len(web3Calls)
                  => MayAskAgain /\ web3Status'.which = "asking"
             /\ ~MayAskAgain
                  => /\ web3Status' = web3Status
                     /\ web3Calls' = web3Calls
                     /\ call'.effects = <<>>]_vars
  /\ [](\A i, j \in DOMAIN web3Calls :
          (i < j /\ web3Calls[j].overlaps)
            => ~(web3Calls[i].pc = "events" /\ web3Calls[j].pc = "events"))

\* what the claim says the status is after event ev of call i
StatusAfterEvent(i, ev) ==
  CASE ev.type = "transactionHash" ->
         IF ev.txId # ""
         THEN [which |-> "submitted", currency |-> Null, txId |-> ev.txId,
               confirmations |-> 0]
         ELSE [which |-> "declined", currency |-> web3Calls[i].currency,
               txId |-> Null, confirmations |-> 0]
    [] ev.type = "receipt" ->
         IF ev.failed THEN Web3("failed")
         ELSE IF web3Status.which = "submitted"
         THEN [which |-> "mined", currency |-> Null, txId |-> web3Status.txId,
               confirmations |-> 0]
         ELSE web3Status
    [] ev.type = "confirmation" ->
         IF web3Status.which = "declined" THEN web3Status
         ELSE [which |-> "mined", currency |-> Null, txId |-> ev.txId,
               confirmations |-> ev.confirmations]
    [] ev.type = "error" ->
         [which |-> "declined", currency |-> web3Calls[i].currency,
          txId |-> Null, confirmations |-> 0]

\* C16: whatever the status and the order of arrival, a transaction-hash event
\* sets submitted(txId) for a truthy hash and declined(currency) for an empty
\* one; a receipt with the failure flag sets failed, one without it sets
\* mined(txId, 0) only if the status is submitted and else changes nothing; a
\* confirmation sets mined(txId, N) unless the status is declined; an error
\* sets declined(currency).
C16_TransactionEvents ==
  [][call'.op = "web3Event"
       => \A i \in DOMAIN web3Calls : \A ev \in Web3Events(i) :
            Web3EventWith(i, ev)
              => /\ web3Status' = StatusAfterEvent(i, ev)
                 /\ web3Calls' = web3Calls
                 /\ step' = step]_vars

\* a confirmation arrived when no transaction hash had been reported
C16_Witness ==
  /\ call.op = "web3Event"
  /\ web3Status.which = "mined"
  /\ web3Status.txId = "0x1"
  /\ web3Status.confirmations = 1

\* the step ran the switch of processChargeUpdate on the snapshot it was
\* given: a poll response that was neither discarded nor equal to the held
\* charge, or a cancel response
Dispatches ==
  \/ call'.op = "cancelChargeResolved"
  \/ call'.op = "pollResolved" /\ pollTimeoutId # Null /\ ~call'.equal

\* the step that the PENDING snapshot c asks for is st; a priced snapshot
\* that lists no payment asks for none
PendingStepIs(c, st) ==
  IF c.pricingType # "fixed_price" THEN st = "successfulPayment"
  ELSE IF c.payments = <<>> THEN TRUE
  ELSE LET payment == c.payments[1]
       IN IF payment.confirmations >= payment.confirmationsRequired
          THEN st = "successfulPayment"
          ELSE IF payment.confirmations = 0 THEN st = "pendingPayment"
          ELSE st = "waitingForConfirmations"

EndsTheFlow(st) ==
  /\ st \in {"UNRESOLVED", "EXPIRED"} => step' = "failedPayment"
  /\ st = "CANCELED" => step' = "canceledPayment"
  /\ st \in {"UNRESOLVED", "EXPIRED", "CANCELED"}
       => /\ pollTimeoutId' = Null
          /\ pollTimers' = 0

\* C18: a dispatched snapshot with status UNRESOLVED or EXPIRED sets the step
\* to failedPayment and one with status CANCELED sets it to canceledPayment;
\* either way polling is stopped when the handler is done (no poll timer
\* handle, no pending poll timer). A dispatched snapshot with status NEW, with
\* an empty timeline or with an unknown status leaves the step where it was.
C18_TerminalStatuses ==
  [][/\ Dispatches
          => /\ EndsTheFlow(charge'.status)
             /\ charge'.status \in {"NEW", "NONE", "OTHER"} => step' = step
     /\ \A c \in Charges : \A picked \in {Null} \cup c.networks :
          SetChargeWith(c, picked, FALSE) => EndsTheFlow(c.status)]_vars

\* C19: a failed poll fetch that settles while polling is active sets the
\* step to maintenance and leaves the error streak alone when it is a
\* maintenance failure, and otherwise adds exactly one to the error streak and
\* leaves the step alone; either way it schedules exactly one next cycle, with
\* the delay that pollDelay gives for the step and the streak after that
\* change. A successful fetch that settles while polling is active leaves the
\* streak at zero.
C19_PollFailure ==
  [][\A stopped \in BOOLEAN : \A hidden \in BOOLEAN :
       /\ \A e \in {"maintenance", "error"} :
            (pollTimeoutId # Null /\ PollFailsWith(stopped, e, hidden))
              => /\ e = "maintenance"
                      => /\ step' = "maintenance"
                         /\ pollErrorStreak' = pollErrorStreak
                 /\ e # "maintenance"
                      => /\ pollErrorStreak' = pollErrorStreak + 1
                         /\ step' = step
                 /\ pollTimers' = pollTimers + 1
                 /\ pollTimeoutId' = "timer"
                 /\ call'.delay =
                      pollDelay([step |-> step',
                                 pollErrorStreak |-> pollErrorStreak'], hidden)
       /\ (pollTimeoutId # Null /\ call'.op = "pollResolved")
            => pollErrorStreak' = 0]_vars

\* the failure that took the streak past the first tier of pollDelay, with the
\* page visible
C19_Witness ==
  /\ call.op = "pollRejected"
  /\ ~call.hidden
  /\ step = "awaitingPayment"
  /\ pollErrorStreak = 6
  /\ call.delay = 5000

\* C20: stopPolling leaves no poll timer handle and no tick timer handle,
\* cancels the timers they referred to and sets the error streak to zero; called
\* when both handles are already null it changes nothing of the store.
\* startPolling stops first, then issues one fetch and starts one tick timer;
\* at no time is more than one tick timer active, and one is active exactly
\* when expiryIntervalId holds a handle.
C20_StopStartPolling ==
  /\ [](tickTimers = IF expiryIntervalId # Null THEN 1 ELSE 0)
  /\ [][/\ StopPolling
            => /\ pollTimeoutId' = Null
               /\ expiryIntervalId' = Null
               /\ pollErrorStreak' = 0
               /\ tickTimers' = 0
               /\ pollTimers' =
                    IF pollTimeoutId = "timer" THEN pollTimers - 1 ELSE pollTimers
               /\ (pollTimeoutId = Null /\ expiryIntervalId = Null)
                    => UNCHANGED <<charge, step, pickedNetwork, pollErrorStreak,
                                   pollTimers, tickTimers, inflight,
                                   inflightStopped>>
        /\ StartPolling
            => /\ pollTimeoutId' = "sentinel"
               /\ expiryIntervalId' = "interval"
               /\ tickTimers' = 1
               /\ pollErrorStreak' = 0
               /\ inflight' = 1
               /\ inflightStopped' = inflightStopped + inflight
               /\ pollTimers' =
                    IF pollTimeoutId = "timer" THEN pollTimers - 1 ELSE pollTimers
               /\ call'.effects = <<"fetch">>]_vars

\* polling was restarted while its fetch was in flight and its tick timer
\* running
C20_Witness ==
  /\ call.op = "startPolling"
  /\ inflightStopped >= 1
  /\ inflight = 1
  /\ tickTimers = 1

\* the steps that end the flow
FinalSteps == {"successfulPayment", "failedPayment", "canceledPayment"}

\* C21: once the step is successfulPayment, failedPayment or canceledPayment,
\* no poll response, be it a snapshot, an ordinary failure or a maintenance
\* failure, changes the step or the held charge.
C21_FinalStepsAbsorbPolls ==
  [][(step \in FinalSteps /\ call'.op \in {"pollResolved", "pollRejected"})
       => /\ step' = step
          /\ charge' = charge]_vars

\* the charge has been paid: it is COMPLETED or RESOLVED, or it is PENDING and
\* either unpriced or confirmed as often as required
PaidFor(c) ==
  \/ c.status \in Paid
  \/ /\ c.status = "PENDING"
     /\ \/ c.pricingType # "fixed_price"
        \/ /\ c.payments # <<>>
           /\ c.payments[1].confirmations >= c.payments[1].confirmationsRequired

\* C22: whenever the step is successfulPayment the held charge has been paid;
\* in particular setCharge with a charge of status NEW, EXPIRED or CANCELED
\* does not end on successfulPayment, whether or not a Coinbase payment was
\* persisted for it.
C22_SuccessOnlyWhenPaid ==
  step = "successfulPayment" => PaidFor(charge)

\* C23: whenever the store holds no poll timer handle the error streak is 0,
\* and no step taken from such a state changes the streak; whenever pollStatus
\* is error the handle is there, with a poll timer pending or a fetch in
\* flight.
C23_StoppedMeansNoStreak ==
  /\ [](pollTimeoutId = Null => pollErrorStreak = 0)
  /\ [](pollStatus(Store) = "error"
         => /\ pollTimeoutId # Null
            /\ pollTimers + inflight + inflightStopped >= 1)
  /\ [][pollTimeoutId = Null => pollErrorStreak' = pollErrorStreak]_vars

\* a fetch failed after polling had been stopped
C23_Witness ==
  /\ call.op = "pollRejected"
  /\ pollTimeoutId = Null
  /\ pollErrorStreak = 0

====
